---------------------------- MODULE Spec2Model ----------------------------
(***************************************************************************)
(* Model of the country/region expansion engine of the SCDB downloader     *)
(* (package main): the master country list, the region presets,            *)
(* getAllCountries, expandCountries and removeDuplicates.                  *)
(*                                                                         *)
(* Go strings are TLA+ strings; a Go slice is a sequence, the nil slice    *)
(* being the empty sequence (len(nil) = 0).  A Go error is a sequence of   *)
(* at most one message: <<>> is nil, <<msg>> an error whose text is msg.   *)
(***************************************************************************)
EXTENDS Integers, Sequences, FiniteSets, TLC

VARIABLES
    allCountries,   \* package variable allCountries ([]string)
    regionMap,      \* package variable regionMap (map[string][]string)
    input,          \* the argument of the call
    op,             \* the function the caller calls
    pc,             \* "ready" before the call, "done" after it returned
    result,         \* the returned slice
    err,            \* the returned error
    ncalls,         \* number of calls made so far
    callers,        \* the calls of expandCountries running side by side
    args,           \* main: the flags given on the command line
    env,            \* main: SCDB_USER and SCDB_PASS of the environment
    config,         \* main: var config Config
    countriesVar,   \* main: var countries string
    countryList,    \* main: the token list handed to expandCountries
    mainpc,         \* main: where the run is
    exitCode,       \* main: <<>> while running, then << status >>
    trace,          \* main: the calls with an effect outside, in order
    savedFile,      \* main: <<>>, or << what saveConfigFile wrote >>
    requests,       \* Run: the HTTP requests sent, in order
    page,           \* Run: the body of the login page that was fetched
    files,          \* Run: the output files, path :> content
    runErr          \* Run: the returned error, <<>> for nil

seqVars == <<input, op, pc, result, err, ncalls>>
concVars == <<callers>>
cliVars == <<args, env, config, countriesVar, countryList, mainpc, exitCode,
             trace, savedFile>>
runVars == <<requests, page, files, runErr>>
vars == <<allCountries, regionMap, seqVars, concVars, cliVars, runVars>>

-----------------------------------------------------------------------------
(* Bounds of the model *)

\* longest token list drawn from the whole token universe
MaxLen == 2

\* longest token list drawn from the core tokens
MaxCoreLen == 3

\* longest slice handed to removeDuplicates directly
MaxDedupLen == 4

\* longest sequence of calls one after the other
MaxCalls == 3

\* number of goroutines calling expandCountries at the same time
NumCallers == 2

-----------------------------------------------------------------------------
(* Generic helpers *)

Range(s) == {s[i] : i \in DOMAIN s}

NoDuplicates(s) == \A i, j \in DOMAIN s : i # j => s[i] # s[j]

SeqsUpTo(S, n) == UNION {[1..k -> S] : k \in 0..n}

\* index of the first occurrence of v in s (0 when absent)
FirstIndex(s, v) ==
    IF \E i \in DOMAIN s : s[i] = v
    THEN CHOOSE i \in DOMAIN s : s[i] = v /\ \A j \in 1..(i - 1) : s[j] # v
    ELSE 0

-----------------------------------------------------------------------------
(* strings.ToLower / strings.ToUpper over the ASCII alphabet of the model *)

upperOf ==
    "a" :> "A" @@ "b" :> "B" @@ "c" :> "C" @@ "d" :> "D" @@ "e" :> "E" @@
    "f" :> "F" @@ "g" :> "G" @@ "h" :> "H" @@ "i" :> "I" @@ "j" :> "J" @@
    "k" :> "K" @@ "l" :> "L" @@ "m" :> "M" @@ "n" :> "N" @@ "o" :> "O" @@
    "p" :> "P" @@ "q" :> "Q" @@ "r" :> "R" @@ "s" :> "S" @@ "t" :> "T" @@
    "u" :> "U" @@ "v" :> "V" @@ "w" :> "W" @@ "x" :> "X" @@ "y" :> "Y" @@
    "z" :> "Z"

lowerOf ==
    "A" :> "a" @@ "B" :> "b" @@ "C" :> "c" @@ "D" :> "d" @@ "E" :> "e" @@
    "F" :> "f" @@ "G" :> "g" @@ "H" :> "h" @@ "I" :> "i" @@ "J" :> "j" @@
    "K" :> "k" @@ "L" :> "l" @@ "M" :> "m" @@ "N" :> "n" @@ "O" :> "o" @@
    "P" :> "p" @@ "Q" :> "q" @@ "R" :> "r" @@ "S" :> "s" @@ "T" :> "t" @@
    "U" :> "u" @@ "V" :> "v" @@ "W" :> "w" @@ "X" :> "x" @@ "Y" :> "y" @@
    "Z" :> "z"

RECURSIVE ToLower(_)
ToLower(s) ==
    IF s = "" THEN ""
    ELSE LET c == SubSeq(s, 1, 1)
         IN (IF c \in DOMAIN lowerOf THEN lowerOf[c] ELSE c)
                \o ToLower(SubSeq(s, 2, Len(s)))

RECURSIVE ToUpper(_)
ToUpper(s) ==
    IF s = "" THEN ""
    ELSE LET c == SubSeq(s, 1, 1)
         IN (IF c \in DOMAIN upperOf THEN upperOf[c] ELSE c)
                \o ToUpper(SubSeq(s, 2, Len(s)))

\* strings.TrimSpace over the alphabet of the model (the only white space is " ")
RECURSIVE TrimSpace(_)
TrimSpace(s) ==
    IF s = "" THEN ""
    ELSE IF SubSeq(s, 1, 1) = " " THEN TrimSpace(SubSeq(s, 2, Len(s)))
    ELSE IF SubSeq(s, Len(s), Len(s)) = " " THEN TrimSpace(SubSeq(s, 1, Len(s) - 1))
    ELSE s

-----------------------------------------------------------------------------
(* The static tables *)

\* master list with "ROU" mistyped as "RO", which repeats an earlier entry
allCountriesRepeated ==
    << "AFG", "DZ", "AND", "RA", "ARM", "AUS", "A", "AZ", "BRN", "BY", "B", "BZ", "BIH",
       "BR", "BG", "CDN", "RCH", "CO", "HR", "CY", "CZ", "DK", "EC", "ET", "ES2", "EST",
       "FJI", "FI", "FR", "GF", "GE", "D", "GBZ", "GR", "GP", "GT", "GUY", "HN", "HK",
       "H", "IS", "IND", "IR", "IRQ", "IRL", "IL", "I", "J", "JOR", "KZ", "KWT", "KS",
       "LAO", "LV", "RL", "LI", "LT", "L", "MO", "MAL", "M", "MQ", "MS", "MEX", "MD",
       "MGL", "MA", "NAM", "NL", "NZ", "MK", "NO", "OM", "PK", "PA", "PY", "PE", "RP",
       "PL", "P", "Q", "RO", "RUS", "RWA", "RE", "RSM", "KSA", "SRB", "SGP", "SK", "SLO",
       "ZA", "ROK", "ES", "SE", "CH", "RCT", "T", "TT", "TN", "TR", "UA", "UAE", "GB",
       "USA", "RO", "UZ", "VN", "Z", "ZW" >>

allCountriesData ==
    << "AFG", "DZ", "AND", "RA", "ARM", "AUS", "A", "AZ", "BRN", "BY", "B", "BZ", "BIH",
       "BR", "BG", "CDN", "RCH", "CO", "HR", "CY", "CZ", "DK", "EC", "ET", "ES2", "EST",
       "FJI", "FI", "FR", "GF", "GE", "D", "GBZ", "GR", "GP", "GT", "GUY", "HN", "HK",
       "H", "IS", "IND", "IR", "IRQ", "IRL", "IL", "I", "J", "JOR", "KZ", "KWT", "KS",
       "LAO", "LV", "RL", "LI", "LT", "L", "MO", "MAL", "M", "MQ", "MS", "MEX", "MD",
       "MGL", "MA", "NAM", "NL", "NZ", "MK", "NO", "OM", "PK", "PA", "PY", "PE", "RP",
       "PL", "P", "Q", "RO", "RUS", "RWA", "RE", "RSM", "KSA", "SRB", "SGP", "SK", "SLO",
       "ZA", "ROK", "ES", "SE", "CH", "RCT", "T", "TT", "TN", "TR", "UA", "UAE", "GB",
       "USA", "ROU", "UZ", "VN", "Z", "ZW" >>

region_africa ==
    << "AFG", "DZ", "ET", "MA", "NAM", "ZA", "RWA", "TN", "Z", "ZW" >>

region_asia ==
    << "ARM", "AZ", "BRN", "HK", "IND", "IR", "IRQ", "IL", "J", "JOR", "KZ", "KWT", "KS",
       "LAO", "MAL", "MO", "MGL", "OM", "PK", "RP", "SGP", "ROK", "RCT", "T", "UAE", "UZ",
       "VN" >>

\* the europe preset with "NL" inserted after "MK"
region_europe_withNL ==
    << "AND", "A", "BY", "B", "BIH", "BG", "HR", "CY", "CZ", "DK", "EST", "FI", "FR", "GE",
       "D", "GBZ", "GR", "H", "IS", "IRL", "I", "LV", "RL", "LI", "LT", "L", "M", "MK", "NL",
       "NO", "PL", "P", "RO", "RUS", "RSM", "SRB", "SK", "SLO", "ES", "SE", "CH", "TR", "UA",
       "GB" >>

region_europe ==
    << "AND", "A", "BY", "B", "BIH", "BG", "HR", "CY", "CZ", "DK", "EST", "FI", "FR", "GE",
       "D", "GBZ", "GR", "H", "IS", "IRL", "I", "LV", "RL", "LI", "LT", "L", "M", "MK",
       "NO", "PL", "P", "RO", "RUS", "RSM", "SRB", "SK", "SLO", "ES", "SE", "CH", "TR", "UA",
       "GB" >>

region_northamerica == << "CDN", "USA", "MEX", "GT", "HN", "BZ", "PA", "TT" >>

region_southamerica == << "RA", "BR", "RCH", "CO", "EC", "GUY", "PY", "PE", "ROU" >>

region_oceania == << "AUS", "FJI", "NZ" >>

\* the dach preset written with ISO codes, two of which the master list lacks
region_dach_iso == << "DE", "AT", "CH" >>

region_dach == << "D", "A", "CH" >>

region_benelux == << "B", "NL", "L" >>

region_westeurope ==
    << "B", "NL", "L", "FR", "D", "A", "CH", "I", "ES", "P", "GB", "IRL" >>

region_easteurope ==
    << "PL", "CZ", "SK", "H", "RO", "BG", "HR", "SLO", "EST", "LV", "LT", "BY", "UA", "RUS" >>

\* the scandinavia preset with Sweden written "S", which the master list lacks
region_scandinavia_typo == << "S", "NO", "DK", "FI", "IS" >>

region_scandinavia == << "SE", "NO", "DK", "FI", "IS" >>

\* the presets with one more, named "all", that holds the master list
regionMapData_all ==
    "africa" :> region_africa @@
    "asia" :> region_asia @@
    "europe" :> region_europe @@
    "northamerica" :> region_northamerica @@
    "southamerica" :> region_southamerica @@
    "oceania" :> region_oceania @@
    "dach" :> region_dach @@
    "benelux" :> region_benelux @@
    "westeurope" :> region_westeurope @@
    "easteurope" :> region_easteurope @@
    "scandinavia" :> region_scandinavia @@
    "all" :> allCountriesData

\* the presets with one more, named "usa" like the master code USA
regionMapData_usa ==
    "africa" :> region_africa @@
    "asia" :> region_asia @@
    "europe" :> region_europe @@
    "northamerica" :> region_northamerica @@
    "southamerica" :> region_southamerica @@
    "oceania" :> region_oceania @@
    "dach" :> region_dach @@
    "benelux" :> region_benelux @@
    "westeurope" :> region_westeurope @@
    "easteurope" :> region_easteurope @@
    "scandinavia" :> region_scandinavia @@
    "usa" :> region_northamerica

regionMapData ==
    "africa" :> region_africa @@
    "asia" :> region_asia @@
    "europe" :> region_europe @@
    "northamerica" :> region_northamerica @@
    "southamerica" :> region_southamerica @@
    "oceania" :> region_oceania @@
    "dach" :> region_dach @@
    "benelux" :> region_benelux @@
    "westeurope" :> region_westeurope @@
    "easteurope" :> region_easteurope @@
    "scandinavia" :> region_scandinavia

-----------------------------------------------------------------------------
(* getAllCountries, removeDuplicates, expandCountries *)

getAllCountries == allCountries

\* a call that keeps what it resolved: a country token that was looked up
\* is stored in regionMap as a preset of one code
packageVarsAfter_memo(f, in) ==
    [allCountries |-> allCountries,
     regionMap |->
        IF /\ f = "expandCountries"
           /\ in # <<>>
           /\ ToLower(in[1]) \notin DOMAIN regionMap
           /\ ToUpper(in[1]) \in Range(allCountries)
        THEN regionMap @@ (ToLower(in[1]) :> << ToUpper(in[1]) >>)
        ELSE regionMap]

\* the package variables as the call f(in) leaves them: getAllCountries,
\* expandCountries and removeDuplicates assign to their locals only (result,
\* lowerItem, found, keys), never to allCountries, regionMap or an element
packageVarsAfter(f, in) ==
    [allCountries |-> allCountries, regionMap |-> regionMap]

\* removeDuplicates that keeps the last occurrence of a value, not the first
removeDuplicates_last(countries) ==
    LET keep == {i \in DOMAIN countries :
                    \A j \in DOMAIN countries : j > i => countries[j] # countries[i]}
        n == Cardinality(keep)
        nth[k \in 1..n] == CHOOSE i \in keep : Cardinality({j \in keep : j < i}) = k - 1
    IN [k \in 1..n |-> countries[nth[k]]]

\* the loop without keys[country] = true: no value is ever marked as seen
RECURSIVE removeDuplicatesLoop_unmarked(_, _, _)
removeDuplicatesLoop_unmarked(countries, i, keys) ==
    IF i > Len(countries) THEN <<>>
    ELSE IF countries[i] \notin keys
         THEN << countries[i] >> \o removeDuplicatesLoop_unmarked(countries, i + 1, keys)
         ELSE removeDuplicatesLoop_unmarked(countries, i + 1, keys)

\* the loop that clears the mark of a value when it drops a repeat of it, so
\* that the third occurrence of a value is appended again
RECURSIVE removeDuplicatesLoop_toggle(_, _, _)
removeDuplicatesLoop_toggle(countries, i, keys) ==
    IF i > Len(countries) THEN <<>>
    ELSE IF countries[i] \notin keys
         THEN << countries[i] >>
                  \o removeDuplicatesLoop_toggle(countries, i + 1, keys \cup {countries[i]})
         ELSE removeDuplicatesLoop_toggle(countries, i + 1, keys \ {countries[i]})

\* the loop of removeDuplicates from index i on: keys is the set of keys of
\* the map `keys`; what the loop appends to result from there on
RECURSIVE removeDuplicatesLoop(_, _, _)
removeDuplicatesLoop(countries, i, keys) ==
    IF i > Len(countries) THEN <<>>
    ELSE IF countries[i] \notin keys
         THEN << countries[i] >>
                  \o removeDuplicatesLoop(countries, i + 1, keys \cup {countries[i]})
         ELSE removeDuplicatesLoop(countries, i + 1, keys)

removeDuplicates(countries) == removeDuplicatesLoop(countries, 1, {})

\* region key taken from the item as typed
lowerItem_exact(item) == item

\* lowerItem := strings.ToLower(item)
lowerItem(item) == ToLower(item)

\* comparison key with the white space around the item removed
upperItem_trimmed(item) == ToUpper(TrimSpace(item))

\* strings.ToUpper(item), the left side of the comparison with validCode
upperItem(item) == ToUpper(item)

\* error text built from the lower-cased item
invalidError_lower(item) == << "invalid country/region: " \o ToLower(item) >>

\* fmt.Errorf("invalid country/region: %s", item)
invalidError(item) == << "invalid country/region: " \o item >>

\* the inner loop over allCountries: index of the first validCode equal to
\* strings.ToUpper(item), 0 when the loop ends with found = false
findValidCode(item) == FirstIndex(allCountries, upperItem(item))

\* loop body that appends the item as typed instead of the matching validCode
expandItem_raw(res, item) ==
    LET key == lowerItem(item)
    IN IF key \in DOMAIN regionMap
       THEN [result |-> res \o regionMap[key], found |-> TRUE]
       ELSE LET idx == findValidCode(item)
            IN IF idx # 0
               THEN [result |-> Append(res, item), found |-> TRUE]
               ELSE [result |-> res, found |-> FALSE]

\* one iteration of the loop of expandCountries over `item`
expandItem(res, item) ==
    LET key == lowerItem(item)
    IN IF key \in DOMAIN regionMap
       THEN [result |-> res \o regionMap[key], found |-> TRUE]
       ELSE LET idx == findValidCode(item)
            IN IF idx # 0
               THEN [result |-> Append(res, allCountries[idx]), found |-> TRUE]
               ELSE [result |-> res, found |-> FALSE]

\* expandCountries that hands back what it has gathered when it fails
RECURSIVE expandLoop_partial(_, _, _)
expandLoop_partial(in, i, res) ==
    IF i > Len(in) THEN [result |-> removeDuplicates(res), err |-> <<>>]
    ELSE LET step == expandItem(res, in[i])
         IN IF step.found THEN expandLoop_partial(in, i + 1, step.result)
            ELSE [result |-> res, err |-> invalidError(in[i])]

\* expandCountries that looks at every item and reports the last one that
\* does not resolve
RECURSIVE expandLoop_lastError(_, _, _)
expandLoop_lastError(in, i, res) ==
    IF i > Len(in) THEN [result |-> removeDuplicates(res), err |-> <<>>]
    ELSE LET step == expandItem(res, in[i])
             rest == expandLoop_lastError(in, i + 1, step.result)
         IN IF step.found \/ rest.err # <<>> THEN [result |-> IF rest.err # <<>> THEN <<>> ELSE rest.result, err |-> rest.err]
            ELSE [result |-> <<>>, err |-> invalidError(in[i])]

\* the loop of expandCountries from item i on, res being `result` so far
RECURSIVE expandLoop(_, _, _)
expandLoop(in, i, res) ==
    IF i > Len(in) THEN [result |-> removeDuplicates(res), err |-> <<>>]
    ELSE LET step == expandItem(res, in[i])
         IN IF step.found THEN expandLoop(in, i + 1, step.result)
            ELSE [result |-> <<>>, err |-> invalidError(in[i])]

\* expandCountries that takes the empty list to mean every country
expandCountries_emptyAll(in) ==
    IF in = <<>> THEN [result |-> allCountries, err |-> <<>>]
    ELSE expandLoop(in, 1, <<>>)

expandCountries(in) == expandLoop(in, 1, <<>>)

-----------------------------------------------------------------------------
(* The callers' inputs *)

RegionNames == DOMAIN regionMapData

Tokens ==
    RegionNames \cup
    { "DACH", "DaCh",
      "NL", "nl", "GB", "usa", "D", "d", "ES2", "es2",
      " NL ", " Nl ", " B ", "dach ",
      "INVALID", "unknownregion", "all", "" }

CoreTokens ==
    { "dach", "DaCh", "FR", "GB", "gb", "D", "nl", "usa", "INVALID" }

\* every master code on its own
CodeInputs == { << c >> : c \in Range(allCountriesData) }

Inputs == SeqsUpTo(Tokens, MaxLen) \cup SeqsUpTo(CoreTokens, MaxCoreLen) \cup CodeInputs

\* values of the slices handed to removeDuplicates directly (it compares
\* strings as they are, so "NL" and "nl" are two values)
DedupValues == { "NL", "B", "nl" }

DedupInputs == SeqsUpTo(DedupValues, MaxDedupLen)

-----------------------------------------------------------------------------
(* The state machine: a caller is about to call getAllCountries(),          *)
(* expandCountries(input) on some token list or removeDuplicates(input) on  *)
(* some slice, and then calls it                                           *)

\* no run of main: the functions are called directly
NoMain ==
    /\ args = <<>>
    /\ env = <<>>
    /\ config = <<>>
    /\ countriesVar = ""
    /\ countryList = <<>>
    /\ mainpc = "none"
    /\ exitCode = <<>>
    /\ trace = <<>>
    /\ savedFile = <<>>
    /\ requests = <<>>
    /\ page = ""
    /\ files = <<>>
    /\ runErr = <<>>

Init ==
    /\ allCountries = allCountriesData
    /\ regionMap = regionMapData
    /\ \/ op = "getAllCountries" /\ input = <<>>
       \/ op = "expandCountries" /\ input \in Inputs
       \/ op = "removeDuplicates" /\ input \in DedupInputs
    /\ pc = "ready"
    /\ result = <<>>
    /\ err = <<>>
    /\ ncalls = 0
    /\ callers = <<>>
    /\ NoMain

CallExpandCountries ==
    /\ pc = "ready"
    /\ op = "expandCountries"
    /\ LET ret == expandCountries(input)
       IN result' = ret.result /\ err' = ret.err
    /\ pc' = "done"
    /\ allCountries' = packageVarsAfter(op, input).allCountries
    /\ regionMap' = packageVarsAfter(op, input).regionMap
    /\ ncalls' = ncalls + 1
    /\ UNCHANGED <<input, op, concVars, cliVars, runVars>>

CallGetAllCountries ==
    /\ pc = "ready"
    /\ op = "getAllCountries"
    /\ result' = getAllCountries
    /\ err' = <<>>
    /\ pc' = "done"
    /\ allCountries' = packageVarsAfter(op, input).allCountries
    /\ regionMap' = packageVarsAfter(op, input).regionMap
    /\ ncalls' = ncalls + 1
    /\ UNCHANGED <<input, op, concVars, cliVars, runVars>>

CallRemoveDuplicates ==
    /\ pc = "ready"
    /\ op = "removeDuplicates"
    /\ result' = removeDuplicates(input)
    /\ err' = <<>>
    /\ pc' = "done"
    /\ allCountries' = packageVarsAfter(op, input).allCountries
    /\ regionMap' = packageVarsAfter(op, input).regionMap
    /\ ncalls' = ncalls + 1
    /\ UNCHANGED <<input, op, concVars, cliVars, runVars>>

Next ==
    \/ CallExpandCountries
    \/ CallGetAllCountries
    \/ CallRemoveDuplicates

Spec == Init /\ [][Next]_vars

-----------------------------------------------------------------------------
(* Calls one after the other: when a call has returned the caller makes    *)
(* another one, up to MaxCalls calls                                       *)

SeqTokens == { "dach", "europe", "nl", "INVALID" }

\* the calls of a sequence: the function and its argument
SeqCalls ==
    ({"expandCountries"} \X SeqsUpTo(SeqTokens, 2))
    \cup ({"removeDuplicates"} \X
            { <<>>, << "NL" >>, << "NL", "NL", "B" >>, << "B", "NL", "B" >>,
              << "nl", "NL" >> })
    \cup {<< "getAllCountries", <<>> >>}

InitSeq ==
    /\ allCountries = allCountriesData
    /\ regionMap = regionMapData
    /\ \E call \in SeqCalls : op = call[1] /\ input = call[2]
    /\ pc = "ready"
    /\ result = <<>>
    /\ err = <<>>
    /\ ncalls = 0
    /\ callers = <<>>
    /\ NoMain

\* the caller goes on to its next call
NextCall ==
    /\ pc = "done"
    /\ ncalls < MaxCalls
    /\ \E call \in SeqCalls : op' = call[1] /\ input' = call[2]
    /\ pc' = "ready"
    /\ result' = <<>>
    /\ err' = <<>>
    /\ UNCHANGED <<allCountries, regionMap, ncalls, concVars, cliVars, runVars>>

NextSeq ==
    \/ CallExpandCountries
    \/ CallGetAllCountries
    \/ CallRemoveDuplicates
    \/ NextCall

SpecSeq == InitSeq /\ [][NextSeq]_vars

-----------------------------------------------------------------------------
(* Calls of expandCountries running side by side.  A step of a caller is   *)
(* one pass of the loop over its input, or the return after the loop; the  *)
(* steps of different callers interleave in every order.                   *)

Callers == 1 .. NumCallers

ConcInputs == { << "dach", "D" >>, << "nl", "INVALID" >>, << "europe" >>, <<>> }

\* result as a package variable: every call gathers into the same slice
resultOwner_shared(c) == 1

\* the call whose frame holds the slice `result` that caller c gathers into:
\* `var result []string` is a local of expandCountries, one per call
resultOwner(c) == c

\* overlap is a history flag, not program state: the caller took a step
\* while another call was between two passes of its loop
InitConc ==
    /\ allCountries = allCountriesData
    /\ regionMap = regionMapData
    /\ input = <<>>
    /\ op = "expandCountries"
    /\ pc = "idle"
    /\ result = <<>>
    /\ err = <<>>
    /\ ncalls = 0
    /\ NoMain
    /\ callers \in [Callers ->
                     { [input |-> in, i |-> 1, result |-> <<>>, pc |-> "loop",
                        ret |-> <<>>, err |-> <<>>, overlap |-> FALSE]
                       : in \in ConcInputs }]

Overlapping(c) ==
    \E d \in Callers \ {c} : callers[d].pc = "loop" /\ callers[d].i > 1

\* one pass of `for _, item := range input` in the call of caller c
ConcIterate(c) ==
    /\ callers[c].pc = "loop"
    /\ callers[c].i <= Len(callers[c].input)
    /\ LET me == callers[c]
           o == resultOwner(c)
           item == me.input[me.i]
           step == expandItem(callers[o].result, item)
           seen == me.overlap \/ Overlapping(c)
       IN callers' =
            IF step.found
            THEN [callers EXCEPT ![o].result = step.result,
                                 ![c].i = me.i + 1,
                                 ![c].overlap = seen]
            ELSE [callers EXCEPT ![c].pc = "returned",
                                 ![c].ret = <<>>,
                                 ![c].err = invalidError(item),
                                 ![c].overlap = seen]
    /\ allCountries' = packageVarsAfter("expandCountries", callers[c].input).allCountries
    /\ regionMap' = packageVarsAfter("expandCountries", callers[c].input).regionMap
    /\ UNCHANGED <<seqVars, cliVars, runVars>>

\* `return removeDuplicates(result), nil` in the call of caller c
ConcReturn(c) ==
    /\ callers[c].pc = "loop"
    /\ callers[c].i > Len(callers[c].input)
    /\ callers' = [callers EXCEPT
                     ![c].pc = "returned",
                     ![c].ret = removeDuplicates(callers[resultOwner(c)].result),
                     ![c].err = <<>>,
                     ![c].overlap = callers[c].overlap \/ Overlapping(c)]
    /\ allCountries' = packageVarsAfter("expandCountries", callers[c].input).allCountries
    /\ regionMap' = packageVarsAfter("expandCountries", callers[c].input).regionMap
    /\ UNCHANGED <<seqVars, cliVars, runVars>>

NextConc ==
    \/ \E c \in Callers : ConcIterate(c)
    \/ \E c \in Callers : ConcReturn(c)

SpecConc == InitConc /\ [][NextConc]_vars

-----------------------------------------------------------------------------
(* The command line program: main, from the parsed flags to the exit.      *)
(* A flag is << >> when it is not given and << value >> when it is.        *)

\* a Config as `var config Config` leaves it
zeroConfig ==
    [Username |-> "", Password |-> "", OutputDir |-> "", Countries |-> <<>>,
     DisplayType |-> 0, DangerZones |-> FALSE, FranceDangerMode |-> FALSE,
     IconSize |-> 0, WarningTime |-> 0,
     DownloadFixed |-> FALSE, DownloadMobile |-> FALSE, Verbose |-> FALSE,
     ConfigFile |-> ""]

\* config once the flags are defined: flag.XxxVar stores each default
flagDefaults ==
    [zeroConfig EXCEPT !.OutputDir = ".", !.DisplayType = 1,
                       !.DangerZones = TRUE, !.FranceDangerMode = FALSE,
                       !.IconSize = 5, !.WarningTime = 0,
                       !.DownloadFixed = TRUE, !.DownloadMobile = TRUE,
                       !.Verbose = FALSE]

\* the default of -countries
countriesDefault == "all"

noFlags ==
    [countries |-> <<>>, config |-> <<>>, saveconfig |-> <<>>,
     user |-> <<>>, pass |-> <<>>, output |-> <<>>, display |-> <<>>,
     dangerzones |-> <<>>, francedanger |-> <<>>, iconsize |-> <<>>,
     warningtime |-> <<>>, fixed |-> <<>>, mobile |-> <<>>, verbose |-> <<>>]

\* flag.Parse on one flag: a flag that is given is stored, any other
\* variable is left as it is
flagValue(flag, cur) == IF flag = <<>> THEN cur ELSE flag[1]

\* flag.Parse on the fields of config
flagParse(cfg, a) ==
    [cfg EXCEPT !.Username = flagValue(a.user, @),
                !.Password = flagValue(a.pass, @),
                !.OutputDir = flagValue(a.output, @),
                !.DisplayType = flagValue(a.display, @),
                !.DangerZones = flagValue(a.dangerzones, @),
                !.FranceDangerMode = flagValue(a.francedanger, @),
                !.IconSize = flagValue(a.iconsize, @),
                !.WarningTime = flagValue(a.warningtime, @),
                !.DownloadFixed = flagValue(a.fixed, @),
                !.DownloadMobile = flagValue(a.mobile, @),
                !.Verbose = flagValue(a.verbose, @)]

\* the config files of the runs: the example of the README, a file that
\* sets a few keys only (yaml.Unmarshal leaves the others zero, the icon
\* size among them), and a file with a negative warning time
configFiles ==
    ("dach.yml" :>
        [zeroConfig EXCEPT !.OutputDir = "./downloads",
                           !.Countries = << "D", "A", "CH" >>,
                           !.DisplayType = 3, !.DangerZones = TRUE,
                           !.FranceDangerMode = TRUE, !.IconSize = 4,
                           !.WarningTime = 300,
                           !.DownloadFixed = TRUE, !.DownloadMobile = TRUE])
    @@
    ("nl.yml" :>
        [zeroConfig EXCEPT !.Countries = << "NL" >>,
                           !.DisplayType = 2,
                           !.DownloadFixed = TRUE])
    @@
    ("neg.yml" :>
        [zeroConfig EXCEPT !.Countries = << "NL" >>,
                           !.DisplayType = 1, !.IconSize = 5,
                           !.WarningTime = -5,
                           !.DownloadFixed = TRUE, !.DownloadMobile = TRUE])

loadConfigFile(filename) ==
    IF filename \in DOMAIN configFiles
    THEN [config |-> configFiles[filename], err |-> <<>>]
    ELSE [config |-> zeroConfig, err |-> << "no such file or directory" >>]

\* index of the first sep in s, 0 if there is none
IndexOf(s, sep) ==
    IF \E i \in 1 .. Len(s) : SubSeq(s, i, i) = sep
    THEN CHOOSE i \in 1 .. Len(s) :
            /\ SubSeq(s, i, i) = sep
            /\ \A j \in 1 .. i - 1 : SubSeq(s, j, j) # sep
    ELSE 0

\* strings.Split(s, sep) for a separator of one character
RECURSIVE Split(_, _)
Split(s, sep) ==
    LET i == IndexOf(s, sep)
    IN IF i = 0 THEN << s >>
       ELSE << SubSeq(s, 1, i - 1) >> \o Split(SubSeq(s, i + 1, Len(s)), sep)

\* the comparison that sends -countries to getAllCountries, letter case
\* ignored
isAll_fold(value) == ToLower(value) = "all"

\* `countries == "all"`
isAll(value) == value = "all"

\* a token of -countries handed on as it was split
trimToken_none(c) == c

\* `countryList[i] = strings.TrimSpace(c)`
trimToken(c) == TrimSpace(c)

\* `countryList := strings.Split(countries, ",")` and the trimming loop
splitCountries(value) ==
    LET parts == Split(value, ",")
    IN [k \in 1 .. Len(parts) |-> trimToken(parts[k])]

\* a failed expansion reported and the run going on with no country
onCountriesError_goOn == [pc |-> "saveconfig", exit |-> <<>>]

\* `if err != nil { ... os.Exit(1) }` after expandCountries
onCountriesError == [pc |-> "exited", exit |-> << 1 >>]

\* yaml.Marshal(config): one key per field with a yaml name, the user name
\* and the password among them; ConfigFile (`yaml:"-"`) is left out
yamlMarshal(cfg) ==
    [username |-> cfg.Username, password |-> cfg.Password,
     output_dir |-> cfg.OutputDir, countries |-> cfg.Countries,
     display_type |-> cfg.DisplayType, danger_zones |-> cfg.DangerZones,
     france_danger_mode |-> cfg.FranceDangerMode,
     icon_size |-> cfg.IconSize, warning_time |-> cfg.WarningTime,
     download_fixed |-> cfg.DownloadFixed,
     download_mobile |-> cfg.DownloadMobile, verbose |-> cfg.Verbose]

\* the checks before saving with the credentials required as well
saveChecks_withCredentials(cfg) ==
    IF cfg.Username = "" \/ cfg.Password = ""
    THEN << "username and password are required" >>
    ELSE IF cfg.DisplayType < 1 \/ cfg.DisplayType > 4
    THEN << "display type must be 1-4 (got " \o ToString(cfg.DisplayType) \o ")" >>
    ELSE IF cfg.IconSize < 1 \/ cfg.IconSize > 5
    THEN << "icon size must be 1-5 (got " \o ToString(cfg.IconSize) \o ")" >>
    ELSE IF cfg.WarningTime < 0
    THEN << "warning time cannot be negative (got " \o ToString(cfg.WarningTime) \o ")" >>
    ELSE <<>>

\* the range checks made before saving: the error, or <<>>
saveChecks(cfg) ==
    IF cfg.DisplayType < 1 \/ cfg.DisplayType > 4
    THEN << "display type must be 1-4 (got " \o ToString(cfg.DisplayType) \o ")" >>
    ELSE IF cfg.IconSize < 1 \/ cfg.IconSize > 5
    THEN << "icon size must be 1-5 (got " \o ToString(cfg.IconSize) \o ")" >>
    ELSE IF cfg.WarningTime < 0
    THEN << "warning time cannot be negative (got " \o ToString(cfg.WarningTime) \o ")" >>
    ELSE <<>>

\* validateConfig with the icon size looked at before the display type
validateConfig_iconFirst(cfg) ==
    IF cfg.Username = "" \/ cfg.Password = ""
    THEN << "username and password are required\nProvide via -user/-pass flags or SCDB_USER/SCDB_PASS environment variables" >>
    ELSE IF cfg.IconSize < 1 \/ cfg.IconSize > 5
    THEN << "icon size must be 1-5 (got " \o ToString(cfg.IconSize) \o ")" >>
    ELSE IF cfg.DisplayType < 1 \/ cfg.DisplayType > 4
    THEN << "display type must be 1-4 (got " \o ToString(cfg.DisplayType) \o ")" >>
    ELSE IF cfg.WarningTime < 0
    THEN << "warning time cannot be negative (got " \o ToString(cfg.WarningTime) \o ")" >>
    ELSE IF ~cfg.DownloadFixed /\ ~cfg.DownloadMobile
    THEN << "at least one of -fixed or -mobile must be enabled" >>
    ELSE IF Len(cfg.Countries) = 0
    THEN << "no countries specified" >>
    ELSE <<>>

validateConfig(cfg) ==
    IF cfg.Username = "" \/ cfg.Password = ""
    THEN << "username and password are required\nProvide via -user/-pass flags or SCDB_USER/SCDB_PASS environment variables" >>
    ELSE IF cfg.DisplayType < 1 \/ cfg.DisplayType > 4
    THEN << "display type must be 1-4 (got " \o ToString(cfg.DisplayType) \o ")" >>
    ELSE IF cfg.IconSize < 1 \/ cfg.IconSize > 5
    THEN << "icon size must be 1-5 (got " \o ToString(cfg.IconSize) \o ")" >>
    ELSE IF cfg.WarningTime < 0
    THEN << "warning time cannot be negative (got " \o ToString(cfg.WarningTime) \o ")" >>
    ELSE IF ~cfg.DownloadFixed /\ ~cfg.DownloadMobile
    THEN << "at least one of -fixed or -mobile must be enabled" >>
    ELSE IF Len(cfg.Countries) = 0
    THEN << "no countries specified" >>
    ELSE <<>>

\* the values of -countries of the runs
CountriesValues ==
    { "all", "ALL", " all", " NL , B ", "dach,nl", "dach,INVALID", "NL,,B", "",
      "all,NL", "europe", "benelux,NL" }

\* -user/-pass and the environment of the runs
Credentials ==
    { [user |-> << "alice" >>, pass |-> << "secret" >>, envUser |-> "", envPass |-> ""],
      [user |-> <<>>, pass |-> <<>>, envUser |-> "bob", envPass |-> "hidden"],
      [user |-> << "alice" >>, pass |-> <<>>, envUser |-> "", envPass |-> ""],
      [user |-> <<>>, pass |-> <<>>, envUser |-> "", envPass |-> ""] }

\* -fixed/-mobile of the runs
DownloadFlags ==
    { [fixed |-> <<>>, mobile |-> <<>>],
      [fixed |-> << FALSE >>, mobile |-> <<>>],
      [fixed |-> << FALSE >>, mobile |-> << FALSE >>] }

\* the command lines of the runs
CommandLines ==
    { [noFlags EXCEPT !.countries = c, !.config = f, !.saveconfig = sv,
                      !.display = d, !.user = cr.user, !.pass = cr.pass,
                      !.fixed = dl.fixed, !.mobile = dl.mobile]
      : c \in {<<>>} \cup { << v >> : v \in CountriesValues },
        f \in { <<>>, << "dach.yml" >>, << "nl.yml" >>, << "neg.yml" >>,
                << "missing.yml" >> },
        sv \in { <<>>, << "out.yml" >> },
        d \in { <<>>, << 2 >>, << 7 >> },
        cr \in Credentials,
        dl \in DownloadFlags }

\* main with the flags defined, before the first flag.Parse
InitCLI ==
    /\ allCountries = allCountriesData
    /\ regionMap = regionMapData
    /\ input = <<>>
    /\ op = "main"
    /\ pc = "idle"
    /\ result = <<>>
    /\ err = <<>>
    /\ ncalls = 0
    /\ callers = <<>>
    /\ \E cr \in Credentials :
          /\ env = [SCDB_USER |-> cr.envUser, SCDB_PASS |-> cr.envPass]
          /\ args \in { a \in CommandLines : a.user = cr.user /\ a.pass = cr.pass }
    /\ config = flagDefaults
    /\ countriesVar = countriesDefault
    /\ countryList = <<>>
    /\ mainpc = "parse"
    /\ exitCode = <<>>
    /\ trace = <<>>
    /\ savedFile = <<>>
    /\ requests = <<>>
    /\ page = ""
    /\ files = <<>>
    /\ runErr = <<>>

\* the first flag.Parse()
MainParseFlags ==
    /\ mainpc = "parse"
    /\ config' = flagParse(config, args)
    /\ countriesVar' = flagValue(args.countries, countriesVar)
    /\ mainpc' = "loadconfig"
    /\ UNCHANGED <<allCountries, regionMap, seqVars, concVars, runVars, args,
                   env,
                   countryList, exitCode, trace, savedFile>>

\* `if configFile != "" { ... }`: load, take the file's Config, parse again
MainLoadConfig ==
    /\ mainpc = "loadconfig"
    /\ LET configFile == flagValue(args.config, "")
           loaded == loadConfigFile(configFile)
       IN IF configFile = ""
          THEN /\ mainpc' = "env"
               /\ UNCHANGED <<config, countriesVar, exitCode, trace>>
          ELSE IF loaded.err # <<>>
          THEN /\ trace' = trace \o << "loadConfigFile", "stderr" >>
               /\ mainpc' = "exited"
               /\ exitCode' = << 1 >>
               /\ UNCHANGED <<config, countriesVar>>
          ELSE /\ config' = flagParse([loaded.config EXCEPT !.ConfigFile = configFile], args)
               /\ countriesVar' = flagValue(args.countries, countriesVar)
               /\ trace' = Append(trace, "loadConfigFile")
               /\ mainpc' = "env"
               /\ UNCHANGED exitCode
    /\ UNCHANGED <<allCountries, regionMap, seqVars, concVars, runVars, args,
                   env,
                   countryList, savedFile>>

\* SCDB_USER and SCDB_PASS stand in for an empty user and password
MainEnvironment ==
    /\ mainpc = "env"
    /\ config' = [config EXCEPT
                    !.Username = IF @ = "" THEN env.SCDB_USER ELSE @,
                    !.Password = IF @ = "" THEN env.SCDB_PASS ELSE @]
    /\ mainpc' = "countries"
    /\ UNCHANGED <<allCountries, regionMap, seqVars, concVars, runVars, args,
                   env,
                   countriesVar, countryList, exitCode, trace, savedFile>>

\* `// Parse and expand countries`
MainCountries ==
    /\ mainpc = "countries"
    /\ IF isAll(countriesVar)
       THEN /\ config' = [config EXCEPT !.Countries = getAllCountries]
            /\ trace' = Append(trace, "getAllCountries")
            /\ mainpc' = "saveconfig"
            /\ allCountries' = packageVarsAfter("getAllCountries", <<>>).allCountries
            /\ regionMap' = packageVarsAfter("getAllCountries", <<>>).regionMap
            /\ UNCHANGED <<countryList, exitCode>>
       ELSE LET list == splitCountries(countriesVar)
                ret == expandCountries(list)
            IN /\ countryList' = list
               /\ allCountries' = packageVarsAfter("expandCountries", list).allCountries
               /\ regionMap' = packageVarsAfter("expandCountries", list).regionMap
               /\ IF ret.err # <<>>
                  THEN /\ trace' = trace \o << "expandCountries", "stderr" >>
                       /\ mainpc' = onCountriesError.pc
                       /\ exitCode' = onCountriesError.exit
                       /\ UNCHANGED config
                  ELSE /\ trace' = Append(trace, "expandCountries")
                       /\ config' = [config EXCEPT !.Countries = ret.result]
                       /\ mainpc' = "saveconfig"
                       /\ UNCHANGED exitCode
    /\ UNCHANGED <<seqVars, concVars, runVars, args,
                   env, countriesVar, savedFile>>

\* `if saveConfigPath != "" { ... return }`; the write may fail
MainSaveConfig ==
    /\ mainpc = "saveconfig"
    /\ IF args.saveconfig = <<>>
       THEN /\ mainpc' = "validate"
            /\ UNCHANGED <<exitCode, trace, savedFile>>
       ELSE IF saveChecks(config) # <<>>
       THEN /\ trace' = Append(trace, "stderr")
            /\ mainpc' = "exited"
            /\ exitCode' = << 1 >>
            /\ UNCHANGED savedFile
       ELSE \E written \in BOOLEAN :
               /\ mainpc' = "exited"
               /\ IF written
                  THEN /\ savedFile' = << yamlMarshal(config) >>
                       /\ trace' = trace \o << "saveConfigFile", "stdout" >>
                       /\ exitCode' = << 0 >>
                  ELSE /\ savedFile' = savedFile
                       /\ trace' = trace \o << "saveConfigFile", "stderr" >>
                       /\ exitCode' = << 1 >>
    /\ UNCHANGED <<allCountries, regionMap, seqVars, concVars, runVars, args,
                   env,
                   config, countriesVar, countryList>>

\* `if err := validateConfig(&config); err != nil { ... os.Exit(1) }`
MainValidate ==
    /\ mainpc = "validate"
    /\ IF validateConfig(config) # <<>>
       THEN /\ trace' = Append(trace, "stderr")
            /\ mainpc' = "exited"
            /\ exitCode' = << 1 >>
       ELSE /\ mainpc' = "mkdir"
            /\ UNCHANGED <<trace, exitCode>>
    /\ UNCHANGED <<allCountries, regionMap, seqVars, concVars, runVars, args,
                   env,
                   config, countriesVar, countryList, savedFile>>

\* os.MkdirAll of the output directory, which may fail
MainMkdir ==
    /\ mainpc = "mkdir"
    /\ \E made \in BOOLEAN :
          IF made
          THEN /\ trace' = Append(trace, "MkdirAll")
               /\ mainpc' = "login"
               /\ UNCHANGED exitCode
          ELSE /\ trace' = trace \o << "MkdirAll", "stderr" >>
               /\ mainpc' = "exited"
               /\ exitCode' = << 1 >>
    /\ UNCHANGED <<allCountries, regionMap, seqVars, concVars, runVars, args,
                   env,
                   config, countriesVar, countryList, savedFile>>

-----------------------------------------------------------------------------
(* The downloader: login, downloadFixed, downloadMobile,                   *)
(* saveResponseToFile and Run.  What the server answers and what the file  *)
(* system does are chosen by the environment.                              *)

\* the number of characters of each half of the CSRF token
TokenLen == 40

\* [a-f0-9] with the capital letters taken as well
HexDigits_anyCase ==
    { "0", "1", "2", "3", "4", "5", "6", "7", "8", "9",
      "a", "b", "c", "d", "e", "f", "A", "B", "C", "D", "E", "F" }

\* [a-f0-9]
HexDigits ==
    { "0", "1", "2", "3", "4", "5", "6", "7", "8", "9",
      "a", "b", "c", "d", "e", "f" }

IsHexRun(s, from, n) ==
    \A k \in from .. from + n - 1 : SubSeq(s, k, k) \in HexDigits

\* the literal parts of tokenPattern
tokenPrefix == "name=\""
tokenMiddle == "\" value=\""
tokenSuffix == "\""

\* tokenPattern matches s from position i on
tokenMatchAt(s, i) ==
    LET a == i + Len(tokenPrefix)
        b == a + TokenLen
        c == b + Len(tokenMiddle)
        e == c + TokenLen
    IN /\ e <= Len(s)
       /\ SubSeq(s, i, a - 1) = tokenPrefix
       /\ SubSeq(s, b, c - 1) = tokenMiddle
       /\ SubSeq(s, e, e) = tokenSuffix
       /\ IsHexRun(s, a, TokenLen)
       /\ IsHexRun(s, c, TokenLen)

\* tokenPattern.FindStringSubmatch(body): <<>> when nothing matches, else
\* the leftmost match as << match, name, value >>
FindStringSubmatch(body) ==
    LET hits == { i \in 1 .. Len(body) : tokenMatchAt(body, i) }
    IN IF hits = {} THEN <<>>
       ELSE LET i == CHOOSE h \in hits : \A o \in hits : h <= o
                a == i + Len(tokenPrefix)
                c == a + TokenLen + Len(tokenMiddle)
            IN << SubSeq(body, i, c + TokenLen),
                  SubSeq(body, a, a + TokenLen - 1),
                  SubSeq(body, c, c + TokenLen - 1) >>

loginURL == "https://www.scdb.info/en/login/"
fixedURL == "https://www.scdb.info/my/downloadsection"
mobileURL == "https://www.scdb.info/intern/download/garmin-mobile.zip"

\* `if len(matches) < 3`
tokenMissing(matches) == Len(matches) < 3

\* login with the answer `get` to the GET of the login page and the answer
\* `post` to the POST of the form: the requests sent, the page, the error
login(cfg, get, post) ==
    LET getReq == [method |-> "GET", url |-> loginURL, form |-> <<>>]
        matches == FindStringSubmatch(get.body)
        tokenName == matches[2]
        tokenValue == matches[3]
        formData == (tokenName :> << tokenValue >>)
                    @@ [u_name |-> << cfg.Username >>,
                        u_password |-> << cfg.Password >>,
                        login_submit |-> << "Login" >>]
        postReq == [method |-> "POST", url |-> loginURL, form |-> formData]
    IN IF get.kind = "error"
       THEN [requests |-> << getReq >>, page |-> "",
             err |-> << "failed to get login page" >>]
       ELSE IF get.kind = "unreadable"
       THEN [requests |-> << getReq >>, page |-> "",
             err |-> << "failed to read login page" >>]
       ELSE IF tokenMissing(matches)
       THEN [requests |-> << getReq >>, page |-> get.body,
             err |-> << "failed to find CSRF token in login page" >>]
       ELSE IF ~post.ok
       THEN [requests |-> << getReq, postReq >>, page |-> get.body,
             err |-> << "login request failed" >>]
       ELSE IF post.status # 200 /\ post.status # 302
       THEN [requests |-> << getReq, postReq >>, page |-> get.body,
             err |-> << "login failed with status: " \o ToString(post.status) >>]
       ELSE [requests |-> << getReq, postReq >>, page |-> get.body, err |-> <<>>]

\* strings.Contains
Contains(s, sub) ==
    \E i \in 1 .. Len(s) - Len(sub) + 1 : SubSeq(s, i, i + Len(sub) - 1) = sub

\* filepath.Join(dir, name) for the directories of the model
joinPath(dir, name) ==
    IF dir = "" \/ dir = "." THEN name
    ELSE IF Len(dir) > 2 /\ SubSeq(dir, 1, 2) = "./"
    THEN SubSeq(dir, 3, Len(dir)) \o "/" \o name
    ELSE dir \o "/" \o name

\* the test on the Content-Type with the two words required together
isZipResponse_both(contentType) ==
    Contains(contentType, "zip") /\ Contains(contentType, "octet")

\* the negation of the test on the Content-Type in saveResponseToFile
isZipResponse(contentType) ==
    Contains(contentType, "zip") \/ Contains(contentType, "octet")

\* saveResponseToFile(resp, filepath) on the files fs; io tells whether
\* os.Create succeeds and how many bytes io.Copy writes before it ends
saveResponseToFile(fs, resp, filepath, io) ==
    IF ~isZipResponse(resp.contentType)
    THEN [files |-> fs,
          err |-> << "unexpected response (not a zip file), Content-Type: "
                     \o resp.contentType \o ", Body: " \o resp.body >>]
    ELSE IF ~io.create
    THEN [files |-> fs, err |-> << "failed to create output file" >>]
    ELSE IF io.copied < Len(resp.body)
    THEN [files |-> (filepath :> SubSeq(resp.body, 1, io.copied)) @@ fs,
          err |-> << "failed to save file" >>]
    ELSE [files |-> (filepath :> resp.body) @@ fs, err |-> <<>>]

\* the form built with formData.Set in the loop over the countries: every
\* Set replaces the value of land[], and the last country alone is left
fixedForm_set(cfg) ==
    (IF Len(cfg.Countries) = 0 THEN <<>>
     ELSE "land[]" :> << cfg.Countries[Len(cfg.Countries)] >>)
    @@ [download_agreement_accept |-> << "1" >>,
        download_wave_right_of_rescission |-> << "1" >>,
        typ |-> << ToString(cfg.DisplayType) >>,
        dangerzones |-> << IF cfg.DangerZones THEN "1" ELSE "0" >>,
        vorwarnzeit |-> << ToString(cfg.WarningTime) >>,
        iconsize |-> << ToString(cfg.IconSize) >>,
        download_start |-> << "Download+Now" >>,
        france_danger |-> << IF cfg.FranceDangerMode THEN "1" ELSE "0" >>]

\* formData of downloadFixed: url.Values, a key :> its values in order;
\* formData.Add("land[]", country) per country
fixedForm(cfg) ==
    (IF Len(cfg.Countries) = 0 THEN <<>> ELSE "land[]" :> cfg.Countries)
    @@ [download_agreement_accept |-> << "1" >>,
        download_wave_right_of_rescission |-> << "1" >>,
        typ |-> << ToString(cfg.DisplayType) >>,
        dangerzones |-> << IF cfg.DangerZones THEN "1" ELSE "0" >>,
        vorwarnzeit |-> << ToString(cfg.WarningTime) >>,
        iconsize |-> << ToString(cfg.IconSize) >>,
        download_start |-> << "Download+Now" >>,
        france_danger |-> << IF cfg.FranceDangerMode THEN "1" ELSE "0" >>]

mobileForm == [mobile_submit |-> << "Download+For+Free" >>]

\* a download: the POST, then saveResponseToFile on the answer
download(cfg, fs, url, form, name, resp, io) ==
    LET req == [method |-> "POST", url |-> url, form |-> form]
        saved == saveResponseToFile(fs, resp, joinPath(cfg.OutputDir, name), io)
    IN IF ~resp.ok
       THEN [request |-> req, files |-> fs, err |-> << "download request failed" >>]
       ELSE [request |-> req, files |-> saved.files, err |-> saved.err]

downloadFixed(cfg, fs, resp, io) ==
    download(cfg, fs, fixedURL, fixedForm(cfg), "garmin.zip", resp, io)

downloadMobile(cfg, fs, resp, io) ==
    download(cfg, fs, mobileURL, mobileForm, "garmin-mobile.zip", resp, io)

\* a login page with a token, and pages without one: no form field, a
\* token in capital letters, a token one character short
goodToken == "0123456789abcdef0123456789abcdef01234567"
goodValue == "fedcba9876543210fedcba9876543210fedcba98"

LoginPages ==
    { "<input type=\"hidden\" name=\"" \o goodToken \o "\" value=\"" \o goodValue \o "\">",
      "<html>maintenance</html>",
      "<input name=\"" \o ToUpper(goodToken) \o "\" value=\"" \o ToUpper(goodValue) \o "\">",
      "<input name=\"" \o SubSeq(goodToken, 2, 40) \o "\" value=\"" \o goodValue \o "\">" }

\* the answers to the GET of the login page
GetOutcomes ==
    { [kind |-> "error", body |-> ""], [kind |-> "unreadable", body |-> ""] }
    \cup { [kind |-> "page", body |-> b] : b \in LoginPages }

\* the answers to the POST of the login form
PostOutcomes ==
    { [ok |-> FALSE, status |-> 0] }
    \cup { [ok |-> TRUE, status |-> c] : c \in { 200, 302, 403, 500 } }

\* the answers to a download request
DownloadOutcomes ==
    { [ok |-> FALSE, contentType |-> "", body |-> ""],
      [ok |-> TRUE, contentType |-> "application/zip", body |-> "PK" ],
      [ok |-> TRUE, contentType |-> "application/octet-stream", body |-> "PK" ],
      [ok |-> TRUE, contentType |-> "text/html", body |-> "no" ] }

\* what the file system does with a body of two bytes
IOOutcomes == [create : BOOLEAN, copied : 0 .. 2]

\* Run going on to the next step whether the step failed or not
nextStep_goOn(step, stepErr) ==
    CASE step = "login" -> "fixed"
      [] step = "fixed" -> "mobile"
      [] OTHER -> "ran"

\* where Run goes after a step: it returns on the first error, else it
\* goes from login to the fixed download, to the mobile one, to `return nil`
nextStep(step, stepErr) ==
    IF stepErr # <<>> THEN "ran"
    ELSE CASE step = "login" -> "fixed"
           [] step = "fixed" -> "mobile"
           [] OTHER -> "ran"

\* Run: `if err := d.login(); err != nil { return ... }`
RunLogin ==
    /\ mainpc = "login"
    /\ trace' = Append(trace, "login")
    /\ \E get \in GetOutcomes, post \in PostOutcomes :
          LET r == login(config, get, post)
          IN /\ requests' = requests \o r.requests
             /\ page' = r.page
             /\ mainpc' = nextStep("login", r.err)
             /\ runErr' = IF r.err # <<>>
                          THEN << "login failed: " \o r.err[1] >>
                          ELSE runErr
    /\ UNCHANGED <<allCountries, regionMap, seqVars, concVars, args, env,
                   config, countriesVar, countryList, exitCode, savedFile,
                   files>>

\* Run: `if d.config.DownloadFixed { ... d.downloadFixed() ... }`
RunDownloadFixed ==
    /\ mainpc = "fixed"
    /\ IF ~config.DownloadFixed
       THEN /\ mainpc' = "mobile"
            /\ UNCHANGED <<trace, requests, files, runErr>>
       ELSE /\ trace' = Append(trace, "downloadFixed")
            /\ \E resp \in DownloadOutcomes, io \in IOOutcomes :
                  LET r == downloadFixed(config, files, resp, io)
                  IN /\ requests' = Append(requests, r.request)
                     /\ files' = r.files
                     /\ mainpc' = nextStep("fixed", r.err)
                     /\ runErr' = IF r.err # <<>>
                                  THEN << "failed to download fixed cameras: " \o r.err[1] >>
                                  ELSE runErr
    /\ UNCHANGED <<allCountries, regionMap, seqVars, concVars, args, env,
                   config, countriesVar, countryList, exitCode, savedFile,
                   page>>

\* Run: `if d.config.DownloadMobile { ... d.downloadMobile() ... }` and
\* `return nil`
RunDownloadMobile ==
    /\ mainpc = "mobile"
    /\ IF ~config.DownloadMobile
       THEN /\ mainpc' = "ran"
            /\ UNCHANGED <<trace, requests, files, runErr>>
       ELSE /\ trace' = Append(trace, "downloadMobile")
            /\ \E resp \in DownloadOutcomes, io \in IOOutcomes :
                  LET r == downloadMobile(config, files, resp, io)
                  IN /\ mainpc' = nextStep("mobile", r.err)
                     /\ requests' = Append(requests, r.request)
                     /\ files' = r.files
                     /\ runErr' = IF r.err # <<>>
                                  THEN << "failed to download mobile cameras: " \o r.err[1] >>
                                  ELSE runErr
    /\ UNCHANGED <<allCountries, regionMap, seqVars, concVars, args, env,
                   config, countriesVar, countryList, exitCode, savedFile,
                   page>>

\* main after Run: `if err := downloader.Run(); err != nil { ... os.Exit(1) }`
MainAfterRun ==
    /\ mainpc = "ran"
    /\ mainpc' = "exited"
    /\ IF runErr # <<>>
       THEN /\ trace' = Append(trace, "stderr")
            /\ exitCode' = << 1 >>
       ELSE /\ exitCode' = << 0 >>
            /\ UNCHANGED trace
    /\ UNCHANGED <<allCountries, regionMap, seqVars, concVars, runVars, args,
                   env, config, countriesVar, countryList, savedFile>>

NextCLI ==
    \/ MainParseFlags
    \/ MainLoadConfig
    \/ MainEnvironment
    \/ MainCountries
    \/ MainSaveConfig
    \/ MainValidate
    \/ MainMkdir
    \/ RunLogin
    \/ RunDownloadFixed
    \/ RunDownloadMobile
    \/ MainAfterRun

SpecCLI == InitCLI /\ [][NextCLI]_vars

-----------------------------------------------------------------------------
(* Run called on a downloader made from a Config, as the tests make one    *)

RunConfigs ==
    { [flagDefaults EXCEPT !.Username = "testuser", !.Password = "testpass",
                           !.OutputDir = "out", !.Countries = c,
                           !.DownloadFixed = f, !.DownloadMobile = m]
      : c \in { <<>>, << "NL" >>, << "D", "A", "CH" >> },
        f \in BOOLEAN, m \in BOOLEAN }

\* NewDownloader(cfg), Run not started
InitRun ==
    /\ allCountries = allCountriesData
    /\ regionMap = regionMapData
    /\ input = <<>>
    /\ op = "Run"
    /\ pc = "idle"
    /\ result = <<>>
    /\ err = <<>>
    /\ ncalls = 0
    /\ callers = <<>>
    /\ args = <<>>
    /\ env = <<>>
    /\ config \in RunConfigs
    /\ countriesVar = ""
    /\ countryList = <<>>
    /\ mainpc = "login"
    /\ exitCode = <<>>
    /\ trace = <<>>
    /\ savedFile = <<>>
    /\ requests = <<>>
    /\ page = ""
    /\ files = <<>>
    /\ runErr = <<>>

NextRun ==
    \/ RunLogin
    \/ RunDownloadFixed
    \/ RunDownloadMobile

SpecRun == InitRun /\ [][NextRun]_vars

-----------------------------------------------------------------------------
(* saveResponseToFile called on a response, as its test calls it.  The     *)
(* argument holds the response, the path, the files there are and what the *)
(* file system will do.                                                    *)

ContentTypes ==
    { "application/zip", "application/octetstream", "application/octet-stream",
      "application/x-zip-compressed", "text/html", "", "application/ZIP",
      "text/plain; name=a.zip", "application/json", "zi", "octe" }

SaveInputs ==
    [resp : [ok : {TRUE}, contentType : ContentTypes, body : { "", "PK", "no" }],
     path : { "out/test.zip" },
     fs : { <<>>, "out/test.zip" :> "old" },
     io : IOOutcomes]

InitSave ==
    /\ allCountries = allCountriesData
    /\ regionMap = regionMapData
    /\ op = "saveResponseToFile"
    /\ input \in SaveInputs
    /\ pc = "ready"
    /\ result = <<>>
    /\ err = <<>>
    /\ ncalls = 0
    /\ callers = <<>>
    /\ NoMain

CallSaveResponseToFile ==
    /\ pc = "ready"
    /\ op = "saveResponseToFile"
    /\ LET ret == saveResponseToFile(input.fs, input.resp, input.path, input.io)
       IN /\ files' = ret.files
          /\ err' = ret.err
    /\ pc' = "done"
    /\ ncalls' = ncalls + 1
    /\ UNCHANGED <<allCountries, regionMap, input, op, result, concVars,
                   cliVars, requests, page, runErr>>

NextSave == CallSaveResponseToFile

SpecSave == InitSave /\ [][NextSave]_vars

-----------------------------------------------------------------------------
(* validateConfig called on a Config, as its test calls it *)

ValidateConfigs ==
    { [zeroConfig EXCEPT !.Username = u, !.Password = pw, !.DisplayType = d,
                         !.IconSize = ic, !.WarningTime = w,
                         !.DownloadFixed = f, !.DownloadMobile = m,
                         !.Countries = c]
      : u \in { "", "testuser" }, pw \in { "", "testpass" },
        d \in { 0, 1, 4, 5 }, ic \in { 0, 1, 5, 6 }, w \in { -1, 0, 300 },
        f \in BOOLEAN, m \in BOOLEAN, c \in { <<>>, << "NL", "B" >> } }

InitValidate ==
    /\ allCountries = allCountriesData
    /\ regionMap = regionMapData
    /\ op = "validateConfig"
    /\ input \in ValidateConfigs
    /\ pc = "ready"
    /\ result = <<>>
    /\ err = <<>>
    /\ ncalls = 0
    /\ callers = <<>>
    /\ NoMain

CallValidateConfig ==
    /\ pc = "ready"
    /\ op = "validateConfig"
    /\ err' = validateConfig(input)
    /\ pc' = "done"
    /\ ncalls' = ncalls + 1
    /\ UNCHANGED <<allCountries, regionMap, input, op, result, concVars,
                   cliVars, runVars>>

NextValidate == CallValidateConfig

SpecValidate == InitValidate /\ [][NextValidate]_vars

-----------------------------------------------------------------------------
(* Vocabulary of the properties, stated without the code's lookups *)

\* the call to expandCountries has returned
Done == pc = "done" /\ op = "expandCountries"

Succeeded == Done /\ err = <<>>

Failed == Done /\ err # <<>>

\* a and b differ at most in letter case
EqualFold(a, b) == ToLower(a) = ToLower(b)

\* the region names of the program text by their lower-cased form
RegionByFold ==
    [f \in {ToLower(r) : r \in DOMAIN regionMapData} |->
        CHOOSE r \in DOMAIN regionMapData : EqualFold(r, f)]

\* the master codes of the program text by their lower-cased form
CodeByFold ==
    [f \in {ToLower(c) : c \in Range(allCountriesData)} |->
        CHOOSE c \in Range(allCountriesData) : EqualFold(c, f)]

\* t is, but for letter case, a region name
IsRegionToken(t) == ToLower(t) \in DOMAIN RegionByFold

\* t is, but for letter case, a master code
IsCountryToken(t) == ToLower(t) \in DOMAIN CodeByFold

Resolvable(t) == IsRegionToken(t) \/ IsCountryToken(t)

\* what one token stands for: a region's stored list, or the one stored code
Expansion(t) ==
    IF IsRegionToken(t) THEN regionMap[RegionByFold[ToLower(t)]]
    ELSE << CodeByFold[ToLower(t)] >>

\* the expansions of the tokens, one after the other
RECURSIVE Concatenation(_)
Concatenation(in) ==
    IF in = <<>> THEN <<>> ELSE Expansion(Head(in)) \o Concatenation(Tail(in))

\* out holds every value of in once, in the order of first occurrence in in
IsDedupOf(out, in) ==
    /\ NoDuplicates(out)
    /\ Range(out) = Range(in)
    /\ \A i \in 1..(Len(out) - 1) : FirstIndex(in, out[i]) < FirstIndex(in, out[i + 1])

LowerAll(in) == [k \in DOMAIN in |-> ToLower(in[k])]

UpperAll(in) == [k \in DOMAIN in |-> ToUpper(in[k])]

\* same result list, or failure in both cases
SameOutcome(r1, r2) == (r1.err = <<>>) = (r2.err = <<>>) /\ r1.result = r2.result

europeExpected ==
    << "AND", "A", "BY", "B", "BIH", "BG", "HR", "CY", "CZ", "DK", "EST", "FI", "FR",
       "GE", "D", "GBZ", "GR", "H", "IS", "IRL", "I", "LV", "RL", "LI", "LT", "L", "M",
       "MK", "NO", "PL", "P", "RO", "RUS", "RSM", "SRB", "SK", "SLO", "ES", "SE", "CH",
       "TR", "UA", "GB" >>

-----------------------------------------------------------------------------
(* The claims *)

\* C1: whenever expandCountries succeeds, its result is the order-preserving
\* deduplication of the concatenation, in token order, of the tokens'
\* expansions; [dach, FR, GB] gives [D, A, CH, FR, GB], [dach, D] gives [D, A, CH].
C1_ResultIsDedupOfConcatenation ==
    /\ Succeeded => IsDedupOf(result, Concatenation(input))
    /\ Done /\ input = << "dach", "FR", "GB" >>
          => err = <<>> /\ result = << "D", "A", "CH", "FR", "GB" >>
    /\ Done /\ input = << "dach", "D" >>
          => err = <<>> /\ result = << "D", "A", "CH" >>

\* a successful call on three tokens whose expansions overlap
C1_Witness ==
    /\ Succeeded
    /\ Len(input) = 3
    /\ \E k \in DOMAIN input : IsRegionToken(input[k])
    /\ \E k \in DOMAIN input : IsCountryToken(input[k])
    /\ Len(result) < Len(Concatenation(input))

\* C2: every successful result of expandCountries holds no value twice and
\* holds only canonical (uppercase, as stored) codes of the master list.
C2_ResultCanonicalNoDuplicates ==
    Succeeded =>
        /\ NoDuplicates(result)
        /\ \A i \in DOMAIN result :
              result[i] \in Range(allCountries) /\ result[i] = ToUpper(result[i])

\* the same country typed twice, in lower and in upper case
C2_Witness == Succeeded /\ input = << "nl", "NL" >> /\ result = << "NL" >>

\* C3: expandCountries returns an error exactly when some token is,
\* case-insensitively, neither a region name nor a master code, and then it
\* returns the nil slice, whatever valid tokens precede or follow.
C3_ErrorIffUnresolvableToken ==
    Done =>
        /\ (err # <<>>) <=> (\E k \in DOMAIN input : ~Resolvable(input[k]))
        /\ err # <<>> => result = <<>>

\* a bad token between two valid ones
C3_Witness ==
    /\ Failed
    /\ Len(input) = 3
    /\ Resolvable(input[1]) /\ ~Resolvable(input[2]) /\ Resolvable(input[3])
    /\ result = <<>>

\* C4: the error of expandCountries is 'invalid country/region: ' followed by
\* an unresolvable token exactly as the caller supplied it.
C4_ErrorNamesLiteralToken ==
    Failed =>
        \E k \in DOMAIN input :
            /\ ~Resolvable(input[k])
            /\ err = << "invalid country/region: " \o input[k] >>

\* a rejected token that lower-casing, upper-casing and trimming would all change
C4_Witness ==
    /\ Failed
    /\ input = << " Nl " >>
    /\ err = << "invalid country/region:  Nl " >>

\* C5: changing the letter case of tokens does not change the outcome: a
\* token list, its lower-cased form and its upper-cased form give the same
\* result list or all fail, so any two lists that differ only in letter case
\* agree; DACH, dach, DaCh give [D, A, CH] and nl, gb, usa give [NL, GB, USA].
C5_CaseInsensitive ==
    /\ Done => /\ SameOutcome([result |-> result, err |-> err],
                              expandCountries(LowerAll(input)))
               /\ SameOutcome([result |-> result, err |-> err],
                              expandCountries(UpperAll(input)))
    /\ Done /\ input \in { << "DACH" >>, << "dach" >>, << "DaCh" >> }
          => err = <<>> /\ result = << "D", "A", "CH" >>
    /\ Done /\ input = << "nl", "gb", "usa" >>
          => err = <<>> /\ result = << "NL", "GB", "USA" >>

\* a region in mixed case next to a country in lower case
C5_Witness ==
    /\ Succeeded
    /\ input = << "DaCh", "nl" >>
    /\ result = << "D", "A", "CH", "NL" >>

\* C6: expandCountries([europe]) returns exactly the 43 listed codes in that
\* order, without NL; NL is in the regions westeurope and benelux only.
C6_EuropeExactList ==
    /\ Done /\ input = << "europe" >>
          => /\ err = <<>>
             /\ result = europeExpected
             /\ Len(result) = 43
             /\ "NL" \notin Range(result)
    /\ {r \in DOMAIN regionMap : "NL" \in Range(regionMap[r])} = {"westeurope", "benelux"}

C6_Witness == Succeeded /\ input = << "europe" >> /\ Len(result) = 43

\* C7: expandCountries([europe]) returns at least 35 codes and the result
\* contains each of D, FR, GB, NL, I and ES.
C7_EuropeContainsNL ==
    Done /\ input = << "europe" >>
        => /\ err = <<>>
           /\ Len(result) >= 35
           /\ {"D", "FR", "GB", "NL", "I", "ES"} \subseteq Range(result)

\* C8: a token with white space before or after an otherwise valid region
\* name or country code is not trimmed and makes the whole call fail.
C8_WhitespaceNotTrimmed ==
    Done /\ (\E k \in DOMAIN input :
                TrimSpace(input[k]) # input[k] /\ Resolvable(TrimSpace(input[k])))
        => err # <<>> /\ result = <<>>

C8_Witness == Failed /\ input = << " NL ", " B " >> /\ result = <<>>

\* C9: the master list returned by getAllCountries has at least 100 entries
\* and holds no value twice.
C9_MasterListComplete ==
    pc = "done" /\ op = "getAllCountries"
        => Len(result) >= 100 /\ NoDuplicates(result)

C9_Witness == pc = "done" /\ op = "getAllCountries" /\ Len(result) = 110

\* C10: for each of the eleven region names expandCountries([region])
\* succeeds with a non-empty result, and every code of every region's list
\* is in the master list.
C10_RegionsCovered ==
    /\ Cardinality(DOMAIN regionMap) = 11
    /\ \A r \in DOMAIN regionMap :
          /\ Done /\ input = << r >> => err = <<>> /\ result # <<>>
          /\ Range(regionMap[r]) \subseteq Range(allCountries)

C10_Witness ==
    /\ Succeeded
    /\ input = << "scandinavia" >>
    /\ result = << "SE", "NO", "DK", "FI", "IS" >>

\* C11: no string is, but for letter case, both a region name and a master
\* code, so a country token resolves to its one stored code although the
\* region lookup is tried first.
C11_RegionAndCodeDisjoint ==
    /\ DOMAIN RegionByFold \cap DOMAIN CodeByFold = {}
    /\ \A k \in DOMAIN input : ~(IsRegionToken(input[k]) /\ IsCountryToken(input[k]))
    /\ Done /\ Len(input) = 1 /\ IsCountryToken(input[1])
          => err = <<>> /\ result = << CodeByFold[ToLower(input[1])] >>

\* a lower-case country token that went past the region lookup
C11_Witness == Succeeded /\ input = << "usa" >> /\ result = << "USA" >>

\* the call to removeDuplicates has returned
DedupDone == pc = "done" /\ op = "removeDuplicates"

\* C12: removeDuplicates returns each distinct input value exactly once, in
\* the order of first occurrence; its length is the number of distinct input
\* values, and an input without repeats comes back unchanged.
C12_RemoveDuplicatesContract ==
    DedupDone =>
        /\ IsDedupOf(result, input)
        /\ Len(result) = Cardinality(Range(input))
        /\ NoDuplicates(input) => result = input

\* repeats that are not adjacent, and a value that differs in case only
C12_Witness ==
    /\ DedupDone
    /\ input = << "NL", "B", "NL", "nl" >>
    /\ result = << "NL", "B", "nl" >>

\* C13: removeDuplicates applied to its own result returns that result.
C13_RemoveDuplicatesIdempotent ==
    DedupDone => removeDuplicates(result) = result

\* a result shorter than the input, three occurrences of one value
C13_Witness ==
    /\ DedupDone
    /\ input = << "NL", "NL", "NL", "B" >>
    /\ result = << "NL", "B" >>

\* C14: expandCountries on the empty token list returns an empty result and
\* no error.
C14_EmptyInput ==
    Done /\ input = <<>> => result = <<>> /\ err = <<>>

C14_Witness == Done /\ input = <<>> /\ Len(result) = 0 /\ err = <<>>

\* C15: after any sequence of calls to expandCountries, removeDuplicates and
\* getAllCountries, failing ones included, the master list and every region
\* list are as they were, and getAllCountries returns the complete master
\* list in its fixed order.
C15_TablesUnchanged ==
    /\ allCountries = allCountriesData
    /\ regionMap = regionMapData
    /\ pc = "done" /\ op = "getAllCountries" => result = allCountriesData

\* getAllCountries returning as the last of MaxCalls calls
C15_Witness ==
    /\ ncalls = MaxCalls
    /\ ncalls > 1
    /\ pc = "done"
    /\ op = "getAllCountries"
    /\ result = allCountriesData

\* C16: with several callers inside expandCountries at the same time, under
\* every interleaving of their steps each caller gets the result and error
\* it would get calling alone, and the shared tables are never written.
C16_ConcurrentCallersIndependent ==
    /\ allCountries = allCountriesData
    /\ regionMap = regionMapData
    /\ \A c \in DOMAIN callers :
          callers[c].pc = "returned" =>
              LET alone == expandCountries(callers[c].input)
              IN callers[c].ret = alone.result /\ callers[c].err = alone.err

\* two calls whose steps were interleaved, one succeeding and one failing
C16_Witness ==
    /\ DOMAIN callers # {}
    /\ callers[1].pc = "returned"
    /\ callers[2].pc = "returned"
    /\ callers[1].overlap
    /\ callers[2].overlap
    /\ callers[1].input = << "dach", "D" >>
    /\ callers[1].ret = << "D", "A", "CH" >>
    /\ callers[2].input = << "nl", "INVALID" >>
    /\ callers[2].err = << "invalid country/region: INVALID" >>

-----------------------------------------------------------------------------
(* Vocabulary of the claims about main *)

\* main has passed `// Parse and expand countries` and goes on
AfterCountries ==
    mainpc \in { "saveconfig", "validate", "mkdir", "login", "fixed", "mobile" }

Called(name) == \E k \in DOMAIN trace : trace[k] = name

\* main has taken one of the two branches on the variable countries
CountriesHandled == Called("getAllCountries") \/ Called("expandCountries")

CommaCount(s) == Cardinality({ i \in 1 .. Len(s) : SubSeq(s, i, i) = "," })

HasComma(s) == \E i \in 1 .. Len(s) : SubSeq(s, i, i) = ","

\* expandCountries was called by main and returned an error
ExpandFailed ==
    Called("expandCountries") /\ expandCountries(countryList).err # <<>>

\* the config file named by -config was read
ConfigLoaded == mainpc \notin { "none", "parse", "loadconfig" } /\ config.ConfigFile # ""

\* C17: when the -countries value is the literal "all" (also the default),
\* main sets the country list to the master list from getAllCountries, in
\* master order, and does not call expandCountries; for any other value it
\* splits the value at the commas and hands the tokens to expandCountries.
C17_AllOrSplit ==
    /\ mainpc \notin { "none", "parse" } /\ args.countries = <<>> => countriesVar = "all"
    /\ AfterCountries => CountriesHandled
    /\ CountriesHandled /\ countriesVar = "all" =>
          /\ Called("getAllCountries")
          /\ ~Called("expandCountries")
          /\ countryList = <<>>
          /\ config.Countries = allCountriesData
    /\ CountriesHandled /\ countriesVar # "all" =>
          /\ Called("expandCountries")
          /\ ~Called("getAllCountries")
          /\ Len(countryList) = CommaCount(countriesVar) + 1
          /\ \A k \in DOMAIN countryList : ~HasComma(countryList[k])
          /\ LET alone == expandCountries(countryList)
             IN IF alone.err = <<>>
                THEN config.Countries = alone.result
                ELSE mainpc = "exited"

\* no -countries on the command line: the master list, expandCountries not called
C17_Witness ==
    /\ mainpc = "saveconfig"
    /\ args.countries = <<>>
    /\ args.config = <<>>
    /\ trace = << "getAllCountries" >>
    /\ config.Countries = allCountriesData

\* C18: main trims leading and trailing white space from every token of
\* -countries before it calls expandCountries, so " NL , B " resolves to
\* [NL, B], while the untrimmed tokens handed to expandCountries fail.
C18_TokensTrimmed ==
    /\ CountriesHandled /\ countriesVar # "all" =>
          LET parts == Split(countriesVar, ",")
          IN /\ Len(countryList) = Len(parts)
             /\ \A k \in DOMAIN countryList :
                   /\ countryList[k] = TrimSpace(parts[k])
                   /\ countryList[k] # "" =>
                         /\ SubSeq(countryList[k], 1, 1) # " "
                         /\ SubSeq(countryList[k], Len(countryList[k]), Len(countryList[k])) # " "
    /\ CountriesHandled /\ countriesVar = " NL , B " =>
          /\ ~ExpandFailed
          /\ config.Countries = << "NL", "B" >>
          /\ expandCountries(Split(countriesVar, ",")).err = invalidError(" NL ")

\* -countries " NL , B " resolved to [NL, B]
C18_Witness ==
    /\ mainpc = "saveconfig"
    /\ countriesVar = " NL , B "
    /\ countryList = << "NL", "B" >>
    /\ config.Countries = << "NL", "B" >>
    /\ expandCountries(<< " NL ", " B " >>).err # <<>>

\* C19: when expandCountries fails for the -countries value, main ends the
\* run with a non-zero exit status and, in that run, saves no config file,
\* does not log in and requests no download; what is printed is printed by
\* main after expandCountries has returned.
C19_ExpandFailureEndsRun ==
    ExpandFailed =>
        /\ mainpc = "exited"
        /\ exitCode # <<>> /\ exitCode[1] # 0
        /\ savedFile = <<>>
        /\ ~Called("saveConfigFile")
        /\ ~Called("login")
        /\ ~Called("downloadFixed")
        /\ ~Called("downloadMobile")
        /\ SubSeq(trace, Len(trace) - 1, Len(trace)) = << "expandCountries", "stderr" >>

\* -countries dach,INVALID with -saveconfig and credentials: exit 1, nothing saved
C19_Witness ==
    /\ mainpc = "exited"
    /\ exitCode = << 1 >>
    /\ countriesVar = "dach,INVALID"
    /\ args.saveconfig # <<>>
    /\ args.user # <<>> /\ args.pass # <<>>
    /\ trace = << "expandCountries", "stderr" >>
    /\ savedFile = <<>>

\* the settings other than the countries list after a config file is loaded:
\* the command line value where the flag is given, else the file's value
ConfigFileSettingsKept ==
    ConfigLoaded =>
        LET file == configFiles[config.ConfigFile]
        IN /\ config.DisplayType = flagValue(args.display, file.DisplayType)
           /\ config.OutputDir = flagValue(args.output, file.OutputDir)
           /\ config.DangerZones = flagValue(args.dangerzones, file.DangerZones)
           /\ config.FranceDangerMode = flagValue(args.francedanger, file.FranceDangerMode)
           /\ config.IconSize = flagValue(args.iconsize, file.IconSize)
           /\ config.WarningTime = flagValue(args.warningtime, file.WarningTime)
           /\ config.DownloadFixed = flagValue(args.fixed, file.DownloadFixed)
           /\ config.DownloadMobile = flagValue(args.mobile, file.DownloadMobile)

\* C20: with -config, every setting not given on the command line keeps the
\* value of the config file and every setting given on the command line
\* takes precedence; in particular, when -countries is not given, the
\* countries list of the config file is the list used for the download.
C20_ConfigFileCountriesKept ==
    /\ ConfigFileSettingsKept
    /\ ConfigLoaded /\ args.countries = <<>> /\ Called("login") =>
          config.Countries = configFiles[config.ConfigFile].Countries

\* C21: no credentials are stored locally: in no run, runs with -saveconfig
\* included, is the user name or the password written to a local file.
C21_NoCredentialsStored ==
    savedFile # <<>> =>
        /\ savedFile[1].username = ""
        /\ savedFile[1].password = ""

-----------------------------------------------------------------------------
(* Vocabulary of the claims about Run *)

IsRunStep(e) == e \in { "login", "downloadFixed", "downloadMobile" }

\* the steps Run has attempted, in order
RunTrace == SelectSeq(trace, IsRunStep)

Attempts(name) == Cardinality({ k \in DOMAIN trace : trace[k] = name })

HasPrefix(s, pre) == Len(s) >= Len(pre) /\ SubSeq(s, 1, Len(pre)) = pre

RunReturned == mainpc \in { "ran", "exited" } /\ Called("login")

\* the file name holds the whole body of a download answer
Downloaded(name) ==
    /\ joinPath(config.OutputDir, name) \in DOMAIN files
    /\ \E resp \in DownloadOutcomes :
          resp.ok /\ files[joinPath(config.OutputDir, name)] = resp.body

\* the login form was posted
LoginPosted == \E k \in DOMAIN requests :
                  requests[k].method = "POST" /\ requests[k].url = loginURL

\* C22: Run is one linear sequence: login, then the fixed download only if
\* DownloadFixed, then the mobile download only if DownloadMobile; every
\* step is attempted at most once, the first failing step ends Run with an
\* error and no later step is attempted, and Run returns nil only if login
\* and every enabled download succeeded.
C22_RunLinear ==
    /\ \A name \in { "login", "downloadFixed", "downloadMobile" } : Attempts(name) <= 1
    /\ RunTrace \in { <<>>, << "login" >>, << "login", "downloadFixed" >>,
                      << "login", "downloadMobile" >>,
                      << "login", "downloadFixed", "downloadMobile" >> }
    /\ Called("downloadFixed") => config.DownloadFixed
    /\ Called("downloadMobile") => config.DownloadMobile
    /\ Called("downloadMobile") /\ config.DownloadFixed => Called("downloadFixed")
    /\ runErr # <<>> =>
          /\ RunReturned
          /\ HasPrefix(runErr[1], "login failed") => RunTrace = << "login" >>
          /\ HasPrefix(runErr[1], "failed to download fixed") =>
                RunTrace = << "login", "downloadFixed" >>
          /\ HasPrefix(runErr[1], "failed to download mobile") =>
                RunTrace[Len(RunTrace)] = "downloadMobile"
    /\ RunReturned /\ runErr = <<>> =>
          /\ LoginPosted
          /\ config.DownloadFixed => Called("downloadFixed") /\ Downloaded("garmin.zip")
          /\ config.DownloadMobile => Called("downloadMobile") /\ Downloaded("garmin-mobile.zip")
          /\ Len(requests) = 2 + (IF config.DownloadFixed THEN 1 ELSE 0)
                               + (IF config.DownloadMobile THEN 1 ELSE 0)

\* the fixed download failed after a login: Run ended there, no mobile download
C22_Witness ==
    /\ mainpc = "ran"
    /\ config.DownloadFixed /\ config.DownloadMobile
    /\ RunTrace = << "login", "downloadFixed" >>
    /\ runErr # <<>>
    /\ HasPrefix(runErr[1], "failed to download fixed")
    /\ Len(requests) = 3

-----------------------------------------------------------------------------
(* Vocabulary of the claims about saveResponseToFile *)

SaveDone == pc = "done" /\ op = "saveResponseToFile"

\* the Content-Type of the response holds "zip" or "octet"
ZipContentType ==
    Contains(input.resp.contentType, "zip") \/ Contains(input.resp.contentType, "octet")

\* the output file is there and holds the whole body, and nil was returned
FileWritten ==
    /\ err = <<>>
    /\ input.path \in DOMAIN files
    /\ files[input.path] = input.resp.body

\* os.Create and io.Copy both succeed
WriteSucceeds == input.io.create /\ input.io.copied >= Len(input.resp.body)

\* C23 as stated: saveResponseToFile creates and writes the output file if
\* and only if the Content-Type contains "zip" or "octet"; for any other
\* Content-Type it returns an "unexpected response" error and creates no
\* file; on success the file content equals the response body.
C23_SaveIffZipContentType ==
    SaveDone =>
        /\ FileWritten <=> ZipContentType
        /\ ~ZipContentType =>
              /\ err # <<>>
              /\ HasPrefix(err[1], "unexpected response")
              /\ files = input.fs
        /\ err = <<>> => files[input.path] = input.resp.body

\* C23 amended: the file is created and written whole if and only if the
\* Content-Type contains "zip" or "octet" and os.Create and io.Copy succeed;
\* for any other Content-Type the error is "unexpected response" and no file
\* is created or changed; when os.Create fails no file is created, when
\* io.Copy fails the file holds the bytes copied so far, and both return an
\* error; on success the file content equals the response body.
C23_SaveIffZipAndWritable ==
    SaveDone =>
        /\ FileWritten <=> (ZipContentType /\ WriteSucceeds)
        /\ ~ZipContentType =>
              /\ err # <<>>
              /\ HasPrefix(err[1], "unexpected response")
              /\ files = input.fs
        /\ ZipContentType /\ ~input.io.create =>
              /\ err = << "failed to create output file" >>
              /\ files = input.fs
        /\ ZipContentType /\ input.io.create /\ ~WriteSucceeds =>
              /\ err = << "failed to save file" >>
              /\ files[input.path] = SubSeq(input.resp.body, 1, input.io.copied)
        /\ err = <<>> => files[input.path] = input.resp.body

\* "application/octetstream" saved over an older file
C23_Witness ==
    /\ SaveDone
    /\ input.resp.contentType = "application/octetstream"
    /\ input.resp.body = "PK"
    /\ input.fs # <<>>
    /\ err = <<>>
    /\ files = ("out/test.zip" :> "PK")

-----------------------------------------------------------------------------
(* Vocabulary of the claim about validateConfig *)

ValidateDone == pc = "done" /\ op = "validateConfig"

\* the six checks in the order of the claim: << passes, error otherwise >>
ConfigChecks(cfg) ==
    << << cfg.Username # "" /\ cfg.Password # "", "username and password are required" >>,
       << 1 <= cfg.DisplayType /\ cfg.DisplayType <= 4, "display type must be 1-4" >>,
       << 1 <= cfg.IconSize /\ cfg.IconSize <= 5, "icon size must be 1-5" >>,
       << cfg.WarningTime >= 0, "warning time cannot be negative" >>,
       << cfg.DownloadFixed \/ cfg.DownloadMobile, "at least one of -fixed or -mobile must be enabled" >>,
       << Len(cfg.Countries) > 0, "no countries specified" >> >>

\* C24: validateConfig returns nil if and only if user name and password
\* are non-empty, 1 <= DisplayType <= 4, 1 <= IconSize <= 5, WarningTime >= 0,
\* one of DownloadFixed and DownloadMobile is set and Countries is not
\* empty; otherwise it returns the error of the first violated check in the
\* order credentials, display type, icon size, warning time, download
\* options, countries.
C24_ValidateConfigChecks ==
    ValidateDone =>
        LET checks == ConfigChecks(input)
            failing == { k \in DOMAIN checks : ~checks[k][1] }
        IN /\ err = <<>> <=> failing = {}
           /\ failing # {} =>
                 LET first == CHOOSE k \in failing : \A o \in failing : k <= o
                 IN HasPrefix(err[1], checks[first][2])

\* display type and icon size both out of range: the display type is reported
C24_Witness ==
    /\ ValidateDone
    /\ input.Username # "" /\ input.Password # ""
    /\ input.DisplayType = 5
    /\ input.IconSize = 0
    /\ err = << "display type must be 1-4 (got 5)" >>

-----------------------------------------------------------------------------
(* Vocabulary of the claim about login *)

LowerHex ==
    { "0", "1", "2", "3", "4", "5", "6", "7", "8", "9", "a", "b", "c", "d", "e", "f" }

\* a string of 40 characters, each a digit or a letter a to f
IsToken(s) == Len(s) = 40 /\ \A i \in 1 .. 40 : SubSeq(s, i, i) \in LowerHex

\* p holds  name="N" value="V"  for a token pair N, V
HasTokenPair(p) ==
    \E i \in 1 .. Len(p) :
        /\ i + 95 <= Len(p)
        /\ SubSeq(p, i, i + 5) = "name=\""
        /\ IsToken(SubSeq(p, i + 6, i + 45))
        /\ SubSeq(p, i + 46, i + 54) = "\" value=\""
        /\ IsToken(SubSeq(p, i + 55, i + 94))
        /\ SubSeq(p, i + 95, i + 95) = "\""

IsLoginPost(r) == r.method = "POST" /\ r.url = loginURL

CarriesCredentials(r) ==
    r.method = "POST" /\ ("u_name" \in DOMAIN r.form \/ "u_password" \in DOMAIN r.form)

LoginReturned == Called("login") /\ mainpc # "login"

\* C25: login posts the credentials to the login URL only after a pair of
\* CSRF tokens, each 40 lower-case hex characters, was taken from the login
\* page it fetched; when the page holds no such pair login fails, no POST
\* with the user name and the password is made and Run makes no download.
C25_PostOnlyWithToken ==
    /\ \A k \in DOMAIN requests :
          IsLoginPost(requests[k]) =>
              /\ k > 1
              /\ requests[k - 1] = [method |-> "GET", url |-> loginURL, form |-> <<>>]
              /\ HasTokenPair(page)
              /\ requests[k].form.u_name = << config.Username >>
              /\ requests[k].form.u_password = << config.Password >>
              /\ \E name \in DOMAIN requests[k].form :
                    /\ IsToken(name)
                    /\ Len(requests[k].form[name]) = 1
                    /\ IsToken(requests[k].form[name][1])
                    /\ Contains(page, "name=\"" \o name \o "\" value=\""
                                      \o requests[k].form[name][1] \o "\"")
    /\ LoginReturned /\ ~HasTokenPair(page) =>
          /\ runErr # <<>>
          /\ HasPrefix(runErr[1], "login failed")
          /\ \A k \in DOMAIN requests : ~CarriesCredentials(requests[k])
          /\ Len(requests) = 1
          /\ ~Called("downloadFixed")
          /\ ~Called("downloadMobile")
          /\ files = <<>>
    /\ LoginReturned /\ page # "" /\ ~HasTokenPair(page) =>
          runErr = << "login failed: failed to find CSRF token in login page" >>

\* a login page whose token is in capital letters: no POST, Run has ended
C25_Witness ==
    /\ mainpc = "ran"
    /\ page = "<input name=\"" \o ToUpper(goodToken) \o "\" value=\"" \o ToUpper(goodValue) \o "\">"
    /\ Len(requests) = 1
    /\ requests[1].method = "GET"
    /\ runErr = << "login failed: failed to find CSRF token in login page" >>
    /\ config.DownloadFixed

-----------------------------------------------------------------------------
(* Vocabulary of the claim about -saveconfig *)

SaveConfigGiven == mainpc # "none" /\ args # <<>> /\ args.saveconfig # <<>>

Exited == mainpc = "exited"

\* one of the three ranges checked before saving is violated
RangeViolated ==
    \/ config.DisplayType < 1 \/ config.DisplayType > 4
    \/ config.IconSize < 1 \/ config.IconSize > 5
    \/ config.WarningTime < 0

\* the file named by -config could not be read
LoadFailed == Called("loadConfigFile") /\ config.ConfigFile = "" /\ mainpc = "exited"

\* saveConfigFile was called and returned an error
WriteFailed == Called("saveConfigFile") /\ savedFile = <<>>

\* no request was sent, nothing was downloaded
NothingSent ==
    /\ requests = <<>>
    /\ files = <<>>
    /\ ~Called("login")
    /\ ~Called("downloadFixed")
    /\ ~Called("downloadMobile")

\* C26 as stated: with -saveconfig main saves the configuration and exits
\* without logging in or downloading; the save needs no credentials and is
\* refused only when DisplayType is outside 1..4, IconSize is outside 1..5,
\* WarningTime is negative, or the -countries value does not resolve.
C26_SaveRefusedOnlyForRangesOrCountries ==
    SaveConfigGiven =>
        /\ NothingSent
        /\ mainpc \notin { "validate", "mkdir", "login", "fixed", "mobile", "ran" }
        /\ Exited =>
              (savedFile = <<>>) <=> (RangeViolated \/ ExpandFailed)

\* C26 amended: with -saveconfig main never logs in or downloads and exits
\* at the save; the configuration is saved, with or without credentials,
\* unless DisplayType is outside 1..4, IconSize is outside 1..5, WarningTime
\* is negative, the -countries value does not resolve, the file named by
\* -config cannot be loaded, or writing the config file fails.
C26_SaveConfigOutcome ==
    SaveConfigGiven =>
        /\ NothingSent
        /\ mainpc \notin { "validate", "mkdir", "login", "fixed", "mobile", "ran" }
        /\ Exited =>
              /\ (savedFile = <<>>) <=>
                    (RangeViolated \/ ExpandFailed \/ LoadFailed \/ WriteFailed)
              /\ savedFile # <<>> => exitCode = << 0 >> /\ savedFile[1] = yamlMarshal(config)
              /\ savedFile = <<>> => exitCode = << 1 >>
              /\ Called("saveConfigFile") <=> ~(RangeViolated \/ ExpandFailed \/ LoadFailed)

\* a configuration saved with no user name and no password
C26_Witness ==
    /\ SaveConfigGiven
    /\ Exited
    /\ exitCode = << 0 >>
    /\ savedFile # <<>>
    /\ config.Username = "" /\ config.Password = ""
    /\ savedFile[1].countries = << "D", "A", "CH", "NL" >>
    /\ NothingSent

\* the position of the first token of the input that does not resolve
FirstUnresolvable ==
    CHOOSE k \in DOMAIN input :
        /\ ~Resolvable(input[k])
        /\ \A j \in 1 .. k - 1 : Resolvable(input[j])

\* C27: when the input holds several tokens that do not resolve, the error
\* names the first of them in input order; the tokens after it are not
\* looked at and have no influence on the error.
C27_FirstUnresolvableNamed ==
    Failed =>
        /\ \E k \in DOMAIN input : ~Resolvable(input[k])
        /\ err = << "invalid country/region: " \o input[FirstUnresolvable] >>
        /\ result = <<>>
        /\ LET cut == expandCountries(SubSeq(input, 1, FirstUnresolvable))
           IN cut.err = err /\ cut.result = result

\* two tokens that do not resolve: the first is named
C27_Witness ==
    /\ Failed
    /\ input = << "INVALID", "unknownregion" >>
    /\ err = << "invalid country/region: INVALID" >>

\* the call expandCountries(list) followed iteration by iteration: every
\* iteration finds its item and appends just that item, so that the loop ends
\* with `list`, and the closing removeDuplicates returns `list` as it is
ExpandsToItself(list) ==
    /\ \A k \in DOMAIN list :
           expandItem(SubSeq(list, 1, k - 1), list[k]) =
               [result |-> SubSeq(list, 1, k), found |-> TRUE]
    /\ removeDuplicates(list) = list

\* C28: expandCountries is idempotent on its own output: whenever it succeeds
\* on an input, it succeeds on the list it returned and returns that list
\* again.
C28_IdempotentOnOutput ==
    Succeeded =>
        /\ ExpandsToItself(result)
        /\ Len(result) <= 40 =>
               expandCountries(result) = [result |-> result, err |-> <<>>]

\* a region and a code, expanded to four codes that expand to themselves
C28_Witness ==
    /\ Succeeded
    /\ input = << "dach", "nl" >>
    /\ result = << "D", "A", "CH", "NL" >>
    /\ expandCountries(result).result = result

\* the -countries values that look like "all" without being it
NearAll == { "ALL", " all", "all,NL" }

\* C29: "all" is not a region name, so expandCountries(["all"]) fails; main
\* takes the master list only when the whole -countries value is exactly the
\* lower-case "all", and the values "ALL", " all" and "all,NL" are handed to
\* expandCountries and rejected.
C29_AllOnlyWhenExact ==
    /\ "all" \notin DOMAIN regionMap
    /\ expandCountries(<< "all" >>) = [result |-> <<>>, err |-> << "invalid country/region: all" >>]
    /\ Called("getAllCountries") <=> CountriesHandled /\ countriesVar = "all"
    /\ CountriesHandled /\ countriesVar \in NearAll =>
          /\ Called("expandCountries")
          /\ ToLower(countryList[1]) = "all"
          /\ expandCountries(countryList).err = << "invalid country/region: " \o countryList[1] >>
          /\ mainpc = "exited"
          /\ exitCode = << 1 >>
          /\ ~Called("login")
          /\ savedFile = <<>>

\* -countries " all": the token all handed to expandCountries, exit 1
C29_Witness ==
    /\ mainpc = "exited"
    /\ exitCode = << 1 >>
    /\ countriesVar = " all"
    /\ countryList = << "all" >>
    /\ trace = << "expandCountries", "stderr" >>

\* the requests of the fixed-camera download
FixedRequests ==
    { k \in DOMAIN requests :
        requests[k].method = "POST" /\ requests[k].url = fixedURL }

\* the list main resolved from the -countries value
ResolvedList ==
    IF countriesVar = "all" THEN allCountriesData
    ELSE expandCountries(countryList).result

\* C30: in every run of main that reaches the fixed-camera download, the
\* request carries at least one land[] value, no value twice, master codes
\* only, and one value per code of the resolved list, in the order of that
\* list.
C30_LandValues ==
    /\ op = "main" /\ Called("downloadFixed") => FixedRequests # {}
    /\ op = "main" =>
          \A k \in FixedRequests :
              /\ "land[]" \in DOMAIN requests[k].form
              /\ LET land == requests[k].form["land[]"]
                 IN /\ Len(land) > 0
                    /\ \A i, j \in DOMAIN land : i # j => land[i] # land[j]
                    /\ \A i \in DOMAIN land : land[i] \in Range(allCountriesData)
                    /\ land = ResolvedList
                    /\ land = config.Countries

\* -countries benelux,NL: the download posts land[] = B, NL, L
C30_Witness ==
    /\ op = "main"
    /\ countriesVar = "benelux,NL"
    /\ countryList = << "benelux", "NL" >>
    /\ \E k \in FixedRequests : requests[k].form["land[]"] = << "B", "NL", "L" >>

=============================================================================
